---- MODULE Spec2Model ----
(***************************************************************************)
(* A model of the Solana account analyzer's core:                          *)
(*   - MultiRPCClient        (backend/multi_rpc_client.py)   "SourcePool"  *)
(*   - TransactionCache      (backend/cache.py)              "RecordStore" *)
(*   - CachedTransactionAnalyzer (backend/cached_analyzer.py) sync engine  *)
(*   - BalanceTracker        (backend/balance_tracker.py)    reconstructor *)
(*   - TransactionAnalyzer.analyze_token_flows               aggregator    *)
(* Amounts are integers (smallest units); the code works on floats.        *)
(***************************************************************************)
EXTENDS Integers, Sequences, FiniteSets, TLC

VARIABLES
    \* ---- MultiRPCClient ----
    rpc_urls,      \* number N of endpoints; endpoint i is rpc_urls[i], here i
    mode,          \* per endpoint: "up" | "down" | "flaky" (the remote side)
    url_cycle,     \* index (0-based) of the endpoint next(self.url_cycle) yields
    stats,         \* per endpoint [requests, failures]
    calls,         \* per caller: the frame of its _call_with_retry
    started,       \* number of calls started so far (bounds the counters)
    \* ---- BalanceTracker / TransactionAnalyzer ----
    transactions,     \* the list of bodies handed to the two analyses
    current_balances, \* the snapshot handed to calculate_balance_history
    phase,            \* "input" | "backward" | "done" | "flows" | "raised"
    token_balances,   \* the working balance per asset
    token_histories,  \* per asset, the points appended by the forward pass
    result,           \* per asset, the returned series (<<>>: no entry)
    token_flows,      \* the totals analyze_token_flows returns
    \* ---- TransactionCache / CachedTransactionAnalyzer ----
    chain,            \* the remote ledger: record k is touched by chain[k]
    signatures,       \* table signatures, rows in insertion order
    txstore,          \* table transactions: signature -> saving address
    address_metadata, \* table address_metadata, per address
    sref,             \* the frame of fetch_signatures_incremental
    sbod,             \* the frame of fetch_transaction_details_cached
    synced,           \* per address: the largest limit synced against the
                      \* remote ledger as it is now (NeverSynced: none)
    ops,              \* number of cache-writing calls made so far
    observed          \* per signature: the block_time the remote reports
                      \* (0: None)

poolVars == <<rpc_urls, mode, url_cycle, stats, calls, started>>
ledgerVars == <<transactions, current_balances, phase, token_balances,
                token_histories, result, token_flows>>
storeVars == <<chain, signatures, txstore, address_metadata, sref, sbod,
               synced, ops, observed>>
vars == <<poolVars, ledgerVars, storeVars>>

----------------------------------------------------------------------------
(* Bounds *)
MaxEndpoints == 3
MaxRetryBudget == 3
MaxCalls == 3
MaxTxs == 2
MaxAmount == 2
MaxTime == 2
MaxRecords == 3
MaxLimit == 3
PageSize == 2
MaxBatchSize == 2
MaxConcurrent == 2
MaxOps == 3

(* Program constants *)
DefaultMaxRetries == 3

Callers == {1, 2}
Modes == {"up", "down", "flaky"}
NoError == 0

----------------------------------------------------------------------------
(* MultiRPCClient *)

IdleFrame ==
    [pc |-> "idle", max_retries |-> 0, attempts |-> 0, last_error |-> NoError,
     url |-> 0, log |-> <<>>, slept |-> <<>>, result |-> 0, error |-> NoError]

\* __init__: the cycle starts at the first url, every counter at 0.
PoolInit ==
    /\ rpc_urls \in 1..MaxEndpoints
    /\ mode \in [1..rpc_urls -> Modes]
    /\ url_cycle = 0
    /\ stats = [u \in 1..rpc_urls |-> [requests |-> 0, failures |-> 0]]
    /\ calls = [c \in Callers |-> IdleFrame]
    /\ started = 0

\* A pool nobody calls: one endpoint, no call ever started.
PoolUnused ==
    /\ rpc_urls = 1
    /\ mode = <<"up">>
    /\ url_cycle = 0
    /\ stats = <<[requests |-> 0, failures |-> 0]>>
    /\ calls = [c \in Callers |-> IdleFrame]
    /\ started = 0

\* Entry of _call_with_retry: attempts = 0, last_error = None.
StartCall(c, mr) ==
    /\ calls[c].pc = "idle"
    /\ started < MaxCalls
    /\ started' = started + 1
    /\ calls' = [calls EXCEPT ![c] =
                    [IdleFrame EXCEPT !.pc = "loop", !.max_retries = mr]]
    /\ UNCHANGED <<rpc_urls, mode, url_cycle, stats>>
    /\ UNCHANGED <<ledgerVars, storeVars>>

\* A selection that passes over an endpoint that has failed before.
NextUrlAvoidFailed ==
    IF stats[url_cycle + 1].failures > 0
    THEN ((url_cycle + 1) % rpc_urls) + 1
    ELSE url_cycle + 1

\* next(self.url_cycle): the url at the cycle's position.
NextUrl == url_cycle + 1

\* A cycle that never moves on: every next() yields the same url.
AdvanceCycleStuck == url_cycle

\* The cycle's position after one next().
AdvanceCycle == (url_cycle + 1) % rpc_urls

\* A budget of max_retries per endpoint instead of one shared budget.
BudgetLeftPerEndpoint(f) == f.attempts < f.max_retries * rpc_urls

\* The loop test of _call_with_retry.
BudgetLeft(f) == f.attempts < f.max_retries

\* get_next_client and the request counter, up to the await.
GetNextClient(c) ==
    /\ calls[c].pc = "loop"
    /\ BudgetLeft(calls[c])
    /\ LET url == NextUrl IN
         /\ url_cycle' = AdvanceCycle
         /\ stats' = [stats EXCEPT ![url].requests = @ + 1]
         /\ calls' = [calls EXCEPT ![c].pc = "await", ![c].url = url]
    /\ UNCHANGED <<rpc_urls, mode, started>>
    /\ UNCHANGED <<ledgerVars, storeVars>>

\* The awaited method returned: return result.
AttemptReturns(c) ==
    /\ calls[c].pc = "await"
    /\ mode[calls[c].url] \in {"up", "flaky"}
    /\ calls' = [calls EXCEPT ![c].pc = "returned",
                              ![c].result = calls[c].url,
                              ![c].log = Append(@, <<calls[c].url, TRUE>>)]
    /\ UNCHANGED <<rpc_urls, mode, url_cycle, stats, started>>
    /\ UNCHANGED <<ledgerVars, storeVars>>

\* A pause of the same length after every failure, the last one included.
BackoffConstant(f) == <<1>>

\* "if attempts < max_retries: await asyncio.sleep(0.3 * attempts)", with
\* attempts already incremented; the unit is 0.3 s.
Backoff(f) == IF f.attempts + 1 < f.max_retries THEN <<f.attempts + 1>> ELSE <<>>

\* The frame after the except branch: last_error = e, attempts += 1, and
\* the pause.
FailedFrame(f) ==
    [f EXCEPT !.pc = "loop", !.last_error = f.url, !.attempts = @ + 1,
              !.log = Append(@, <<f.url, FALSE>>),
              !.slept = @ \o Backoff(f)]

\* The awaited method raised: count the failure, back to the loop test.
AttemptRaises(c) ==
    /\ calls[c].pc = "await"
    /\ mode[calls[c].url] \in {"down", "flaky"}
    /\ stats' = [stats EXCEPT ![calls[c].url].failures = @ + 1]
    /\ calls' = [calls EXCEPT ![c] = FailedFrame(calls[c])]
    /\ UNCHANGED <<rpc_urls, mode, url_cycle, started>>
    /\ UNCHANGED <<ledgerVars, storeVars>>

\* The loop test fails: raise Exception("All RPC endpoints failed ... {last_error}").
RaiseExhausted(c) ==
    /\ calls[c].pc = "loop"
    /\ ~BudgetLeft(calls[c])
    /\ calls' = [calls EXCEPT ![c].pc = "raised", ![c].error = calls[c].last_error]
    /\ UNCHANGED <<rpc_urls, mode, url_cycle, stats, started>>
    /\ UNCHANGED <<ledgerVars, storeVars>>

\* The caller takes the result or the exception; its frame is gone.
CallEnds(c) ==
    /\ calls[c].pc \in {"returned", "raised"}
    /\ calls' = [calls EXCEPT ![c] = IdleFrame]
    /\ UNCHANGED <<rpc_urls, mode, url_cycle, stats, started>>
    /\ UNCHANGED <<ledgerVars, storeVars>>

\* One call at a time on the pool.
NoOtherCall(c) == \A d \in Callers \ {c} : calls[d].pc = "idle"

PoolNext ==
    \/ \E c \in Callers, mr \in 1..MaxRetryBudget : NoOtherCall(c) /\ StartCall(c, mr)
    \/ \E c \in Callers : GetNextClient(c)
    \/ \E c \in Callers : AttemptReturns(c)
    \/ \E c \in Callers : AttemptRaises(c)
    \/ \E c \in Callers : RaiseExhausted(c)
    \/ \E c \in Callers : CallEnds(c)

\* Calls of concurrent tasks share the pool (asyncio.gather over
\* fetch_with_semaphore): a call may start while another one is awaiting.
SharedPoolNext ==
    \/ \E c \in Callers, mr \in 1..MaxRetryBudget : StartCall(c, mr)
    \/ \E c \in Callers : GetNextClient(c)
    \/ \E c \in Callers : AttemptReturns(c)
    \/ \E c \in Callers : AttemptRaises(c)
    \/ \E c \in Callers : RaiseExhausted(c)
    \/ \E c \in Callers : CallEnds(c)


----------------------------------------------------------------------------
(* Bodies (transaction details as fetch_transaction_details_cached builds them) *)

target_address == "W"
Keys == {"W", "w", "X"}
\* str.lower() on the keys in use.
Lower(k) == IF k = "W" THEN "w" ELSE k

Mints == {"M", "N"}
Assets == Mints \cup {"SOL"}
Amounts == 0..MaxAmount
NoTok == [mint |-> "-", ui_amount |-> 0]
Tok(m, a) == [mint |-> m, ui_amount |-> a]
\* A token sub-balance an account index can carry, or none.
TokOpts == {NoTok} \cup {Tok("M", a) : a \in Amounts} \cup {Tok("N", 1)}

\* The part of a body below block_time and signature: meta (None when
\* has_meta is FALSE), err, account_keys, the token balances by account
\* index (NoTok: no entry for that index) and the lamport lists.
Shape(keys, pt, qt, ps, qs) ==
    [has_meta |-> TRUE, err |-> FALSE, account_keys |-> keys,
     pre_token_balances |-> pt, post_token_balances |-> qt,
     pre_balances |-> ps, post_balances |-> qs]

\* The target's own index carries a token balance on either side.
TokenShapes ==
    {Shape(<<"W">>, <<p>>, <<q>>, <<1>>, <<1>>) :
        p \in TokOpts, q \in TokOpts} \ {Shape(<<"W">>, <<NoTok>>, <<NoTok>>, <<1>>, <<1>>)}

LamportLists == {<<>>} \cup {<<a>> : a \in Amounts}
\* The target's own index carries lamports only.
SolShapes ==
    {Shape(<<"W">>, <<NoTok>>, <<NoTok>>, ps, qs) :
        ps \in LamportLists, qs \in LamportLists}

\* The target address at two indices (keys equal up to case), or at none.
OtherShapes ==
    {Shape(<<"W", "w">>, <<Tok("M", 0), Tok("M", 1)>>,
           <<Tok("M", 1), Tok("M", 0)>>, <<1, 2>>, <<1, 1>>),
     Shape(<<"W", "w">>, <<Tok("N", 1), Tok("M", 1)>>,
           <<Tok("M", 1), Tok("M", 2)>>, <<1, 1>>, <<2, 1>>),
     Shape(<<"X", "W">>, <<Tok("M", 2), Tok("M", 1)>>,
           <<Tok("M", 0), Tok("M", 2)>>, <<2, 0>>, <<0, 1>>),
     Shape(<<"X">>, <<Tok("M", 2)>>, <<Tok("M", 1)>>, <<2>>, <<1>>),
     [Shape(<<"W">>, <<Tok("M", 1)>>, <<Tok("M", 2)>>, <<2>>, <<1>>)
        EXCEPT !.err = TRUE],
     [Shape(<<"W">>, <<Tok("M", 1)>>, <<Tok("M", 2)>>, <<2>>, <<1>>)
        EXCEPT !.has_meta = FALSE]}

Shapes == TokenShapes \cup SolShapes \cup OtherShapes

\* block_time 0 stands for a missing (None) or zero block_time.
BlockTimes == 0..MaxTime

\* A body without block_time is dropped whatever else it holds: one will do.
Untimed == Shape(<<"W">>, <<Tok("M", 0)>>, <<Tok("M", 1)>>, <<2>>, <<1>>)

Inputs == ((BlockTimes \ {0}) \X Shapes) \cup {<<0, Untimed>>}

Body(sig, bt, sh) ==
    [signature |-> sig, block_time |-> bt, has_meta |-> sh.has_meta,
     err |-> sh.err, account_keys |-> sh.account_keys,
     pre_token_balances |-> sh.pre_token_balances,
     post_token_balances |-> sh.post_token_balances,
     pre_balances |-> sh.pre_balances, post_balances |-> sh.post_balances]

\* current_balances: None, or a dict asset -> ui_amount (-1: no key;
\* -2: the entry is there and its ui_amount is None, as get_current_balances
\* stores it when the remote reports uiAmount null).
NoKey == -1
NullAmount == -2
NoSnapshot == [a \in Assets |-> NoKey]
Snapshots ==
    {[a \in Assets |-> IF a = "M" THEN m ELSE IF a = "SOL" THEN s ELSE NoKey] :
        m \in Amounts \cup {NoKey, NullAmount}, s \in Amounts \cup {NoKey}}

\* "current_balances and mint in current_balances"
InSnapshot(snap, a) == snap[a] # NoKey

----------------------------------------------------------------------------
(* Helpers shared by the two analyses *)

\* "if not tx.get('meta') or tx['meta'].get('err'): continue"
Skipped(tx) == ~tx.has_meta \/ tx.err

\* target_indices, ascending (1-based here; account_index = position - 1).
RECURSIVE IndicesFrom(_, _)
IndicesFrom(keys, i) ==
    IF i > Len(keys) THEN <<>>
    ELSE (IF Lower(keys[i]) = Lower(target_address) THEN <<i>> ELSE <<>>)
         \o IndicesFrom(keys, i + 1)

TargetIndices(tx) == IndicesFrom(tx.account_keys, 1)

\* pre_token_balances.get(idx) / post_token_balances.get(idx)
PreTok(tx, i) == IF i <= Len(tx.pre_token_balances) THEN tx.pre_token_balances[i] ELSE NoTok
PostTok(tx, i) == IF i <= Len(tx.post_token_balances) THEN tx.post_token_balances[i] ELSE NoTok

----------------------------------------------------------------------------
(* BalanceTracker.calculate_balance_history *)

\* Every body has the same key: the sort keeps the order given.
SortKeyConstant(tx) == 0

\* key=lambda x: x['block_time']
SortKey(tx) == tx.block_time

\* Insert tx after every element whose block_time is <= its own (stable).
RECURSIVE InsertByTime(_, _)
InsertByTime(sorted, tx) ==
    IF sorted = <<>> THEN <<tx>>
    ELSE IF SortKey(Head(sorted)) <= SortKey(tx)
         THEN <<Head(sorted)>> \o InsertByTime(Tail(sorted), tx)
         ELSE <<tx>> \o sorted

\* sorted([tx for tx in transactions if tx.get('block_time')], key=block_time)
RECURSIVE SortedTxs(_)
SortedTxs(txs) ==
    IF txs = <<>> THEN <<>>
    ELSE LET init == SortedTxs(SubSeq(txs, 1, Len(txs) - 1))
             last == txs[Len(txs)]
         IN  IF last.block_time = 0 THEN init ELSE InsertByTime(init, last)

Reverse(s) == [i \in 1..Len(s) |-> s[Len(s) + 1 - i]]

\* float(balance_info.get('ui_amount', 0)) on an entry whose ui_amount is
\* None: TypeError.
SeedRaises(snap) == \E a \in Assets : snap[a] = NullAmount

\* The seed: token_balances[mint] = ui_amount of every snapshot entry.
SeedBalances(snap) == [a \in Assets |-> IF InSnapshot(snap, a) THEN snap[a] ELSE 0]

\* Backward pass, token part of one target index (lines 72-99).
BackwardToken(st, snap, tx, i) ==
    LET pre == PreTok(tx, i)
        post == PostTok(tx, i)
    IN  IF post # NoTok
        THEN IF post.mint \in st.seen THEN st
             ELSE [bal |-> [st.bal EXCEPT ![post.mint] =
                              IF InSnapshot(snap, post.mint) THEN post.ui_amount
                              ELSE IF pre # NoTok
                                   THEN @ - (post.ui_amount - pre.ui_amount)
                                   ELSE @ - post.ui_amount],
                   seen |-> st.seen \cup {post.mint}]
        ELSE IF pre # NoTok
        THEN IF pre.mint \in st.seen THEN st
             ELSE [bal |-> [st.bal EXCEPT ![pre.mint] = @ + pre.ui_amount],
                   seen |-> st.seen \cup {pre.mint}]
        ELSE st

\* Backward pass, SOL part of one target index (lines 101-115).
BackwardSol(st, snap, tx, i) ==
    IF i <= Len(tx.post_balances) /\ "SOL" \notin st.seen
    THEN [bal |-> [st.bal EXCEPT !["SOL"] =
                     IF InSnapshot(snap, "SOL") THEN tx.post_balances[i]
                     ELSE IF i <= Len(tx.pre_balances)
                          THEN @ - (tx.post_balances[i] - tx.pre_balances[i])
                          ELSE @ - tx.post_balances[i]],
          seen |-> st.seen \cup {"SOL"}]
    ELSE st

\* "for idx in target_indices" of the backward pass; seen is processed_tokens.
RECURSIVE BackwardIndices(_, _, _, _)
BackwardIndices(st, snap, tx, idxs) ==
    IF idxs = <<>> THEN st
    ELSE BackwardIndices(
             BackwardSol(BackwardToken(st, snap, tx, Head(idxs)), snap, tx, Head(idxs)),
             snap, tx, Tail(idxs))

BackwardTx(bal, snap, tx) ==
    IF Skipped(tx) THEN bal
    ELSE BackwardIndices([bal |-> bal, seen |-> {}], snap, tx, TargetIndices(tx)).bal

\* "for tx in reversed(sorted_txs)": txs is already reversed.
RECURSIVE BackwardPass(_, _, _)
BackwardPass(bal, snap, txs) ==
    IF txs = <<>> THEN bal
    ELSE BackwardPass(BackwardTx(bal, snap, Head(txs)), snap, Tail(txs))

Point(tx, bal, change) ==
    [timestamp |-> tx.block_time, balance |-> bal, change |-> change,
     signature |-> tx.signature]

\* token_balances[mint] += change; recorded_changes[mint] = True; append.
Record(st, tx, a, change) ==
    IF a \in st.seen THEN st
    ELSE LET b == st.bal[a] + change
         IN  [bal |-> [st.bal EXCEPT ![a] = b],
              seen |-> st.seen \cup {a},
              hist |-> [st.hist EXCEPT ![a] = Append(@, Point(tx, b, change))]]

\* Forward pass, token part of one target index (lines 145-196).
ForwardToken(st, tx, i) ==
    LET pre == PreTok(tx, i)
        post == PostTok(tx, i)
    IN  IF pre # NoTok /\ post # NoTok
        THEN IF pre.mint = post.mint
             THEN Record(st, tx, pre.mint, post.ui_amount - pre.ui_amount)
             ELSE st
        ELSE IF post # NoTok THEN Record(st, tx, post.mint, post.ui_amount)
        ELSE IF pre # NoTok THEN Record(st, tx, pre.mint, 0 - pre.ui_amount)
        ELSE st

\* Forward pass, SOL part of one target index (lines 198-212).
ForwardSol(st, tx, i) ==
    IF i <= Len(tx.pre_balances) /\ i <= Len(tx.post_balances)
    THEN LET change == tx.post_balances[i] - tx.pre_balances[i]
         IN  IF change # 0 THEN Record(st, tx, "SOL", change) ELSE st
    ELSE st

\* "for idx in target_indices" of the forward pass; seen is recorded_changes.
RECURSIVE ForwardIndices(_, _, _)
ForwardIndices(st, tx, idxs) ==
    IF idxs = <<>> THEN st
    ELSE ForwardIndices(ForwardSol(ForwardToken(st, tx, Head(idxs)), tx, Head(idxs)),
                        tx, Tail(idxs))

ForwardTx(st, tx) ==
    IF Skipped(tx) THEN st
    ELSE LET out == ForwardIndices([bal |-> st.bal, seen |-> {}, hist |-> st.hist],
                                   tx, TargetIndices(tx))
         IN  [bal |-> out.bal, hist |-> out.hist]

\* "for tx in sorted_txs"
RECURSIVE ForwardPass(_, _)
ForwardPass(st, txs) ==
    IF txs = <<>> THEN st ELSE ForwardPass(ForwardTx(st, Head(txs)), Tail(txs))

IsPermutation(p, n) == {p[i] : i \in 1..n} = 1..n

\* df.sort_values('timestamp'): pandas' default kind is quicksort, which is
\* not stable, so rows of equal timestamp may come out in any order.
SortValues(h) ==
    {[i \in 1..Len(h) |-> h[p[i]]] :
        p \in {q \in [1..Len(h) -> 1..Len(h)] :
                 /\ IsPermutation(q, Len(h))
                 /\ \A i, j \in 1..Len(h) :
                        i < j => h[q[i]].timestamp <= h[q[j]].timestamp}}

----------------------------------------------------------------------------
(* TransactionAnalyzer.analyze_token_flows *)

ZeroFlow == [total_received |-> 0, total_sent |-> 0, net_change |-> 0,
             transaction_count |-> 0]

Abs(x) == IF x < 0 THEN 0 - x ELSE x

\* total_sent takes the signed change instead of its magnitude.
AddChangeSigned(fl, a, change) ==
    [fl EXCEPT ![a] =
        [total_received |-> @.total_received + (IF change > 0 THEN change ELSE 0),
         total_sent |-> @.total_sent + (IF change < 0 THEN change ELSE 0),
         net_change |-> @.net_change + change,
         transaction_count |-> @.transaction_count + 1]]

\* The both-sides branch and the SOL branch: count, classify, add to net.
AddChange(fl, a, change) ==
    [fl EXCEPT ![a] =
        [total_received |-> @.total_received + (IF change > 0 THEN change ELSE 0),
         total_sent |-> @.total_sent + (IF change < 0 THEN Abs(change) ELSE 0),
         net_change |-> @.net_change + change,
         transaction_count |-> @.transaction_count + 1]]

\* Token part of one target index (lines 119-159).
FlowToken(fl, tx, i) ==
    LET pre == PreTok(tx, i)
        post == PostTok(tx, i)
    IN  IF pre # NoTok /\ post # NoTok
        THEN IF pre.mint = post.mint
             THEN AddChange(fl, pre.mint, post.ui_amount - pre.ui_amount)
             ELSE fl
        ELSE IF post # NoTok
        THEN [fl EXCEPT ![post.mint] =
                [total_received |-> @.total_received + post.ui_amount,
                 total_sent |-> @.total_sent,
                 net_change |-> @.net_change + post.ui_amount,
                 transaction_count |-> @.transaction_count + 1]]
        ELSE IF pre # NoTok
        THEN [fl EXCEPT ![pre.mint] =
                [total_received |-> @.total_received,
                 total_sent |-> @.total_sent + pre.ui_amount,
                 net_change |-> @.net_change - pre.ui_amount,
                 transaction_count |-> @.transaction_count + 1]]
        ELSE fl

\* SOL part of one target index (lines 165-187).
FlowSol(fl, tx, i) ==
    IF i <= Len(tx.pre_balances) /\ i <= Len(tx.post_balances)
    THEN AddChange(fl, "SOL", tx.post_balances[i] - tx.pre_balances[i])
    ELSE fl

RECURSIVE FlowTokens(_, _, _)
FlowTokens(fl, tx, idxs) ==
    IF idxs = <<>> THEN fl
    ELSE FlowTokens(FlowToken(fl, tx, Head(idxs)), tx, Tail(idxs))

RECURSIVE FlowSols(_, _, _)
FlowSols(fl, tx, idxs) ==
    IF idxs = <<>> THEN fl
    ELSE FlowSols(FlowSol(fl, tx, Head(idxs)), tx, Tail(idxs))

\* One body: the token loop over the target indices, then the SOL loop.
FlowTx(fl, tx) ==
    IF Skipped(tx) THEN fl
    ELSE FlowSols(FlowTokens(fl, tx, TargetIndices(tx)), tx, TargetIndices(tx))

\* "for tx in transactions" (input order, no block_time filter); an asset
\* with transaction_count 0 has no entry in the returned dict.
RECURSIVE FlowPass(_, _)
FlowPass(fl, txs) ==
    IF txs = <<>> THEN fl ELSE FlowPass(FlowTx(fl, Head(txs)), Tail(txs))

----------------------------------------------------------------------------
(* The analyses as operations *)

NoHistory == [a \in Assets |-> <<>>]
NoFlows == [a \in Assets |-> ZeroFlow]

\* calculate_balance_history(transactions, target_address, current_balances)
\* as one function: for every asset the frames sort_values may return.
CalculateBalanceHistory(txs, snap) ==
    LET sorted_txs == SortedTxs(txs)
        bal == BackwardPass(SeedBalances(snap), snap, Reverse(sorted_txs))
        out == ForwardPass([bal |-> bal, hist |-> NoHistory], sorted_txs)
    IN  [a \in Assets |-> SortValues(out.hist[a])]

LedgerInit ==
    /\ transactions = <<>>
    /\ current_balances = NoSnapshot
    /\ phase = "input"
    /\ token_balances = [a \in Assets |-> 0]
    /\ token_histories = NoHistory
    /\ result = NoHistory
    /\ token_flows = NoFlows

\* The caller puts one more body on the list it will hand over.
AddTransaction(bt, sh) ==
    /\ phase = "input"
    /\ Len(transactions) < MaxTxs
    /\ transactions' = Append(transactions, Body(Len(transactions) + 1, bt, sh))
    /\ UNCHANGED <<current_balances, phase, token_balances, token_histories,
                   result, token_flows>>
    /\ UNCHANGED <<poolVars, storeVars>>

\* calculate_balance_history, lines 32-115: sort, seed, backward pass.
CalculateBackward(snap) ==
    /\ phase = "input"
    /\ current_balances' = snap
    /\ IF SeedRaises(snap)
       THEN /\ phase' = "raised"
            /\ UNCHANGED token_balances
       ELSE /\ token_balances' =
                  BackwardPass(SeedBalances(snap), snap,
                               Reverse(SortedTxs(transactions)))
            /\ phase' = "backward"
    /\ UNCHANGED <<transactions, token_histories, result, token_flows>>
    /\ UNCHANGED <<poolVars, storeVars>>

\* calculate_balance_history, lines 117-221: forward pass, then one frame
\* per asset, sorted by timestamp.
CalculateForward ==
    /\ phase = "backward"
    /\ LET out == ForwardPass([bal |-> token_balances, hist |-> NoHistory],
                              SortedTxs(transactions))
       IN  /\ token_balances' = out.bal
           /\ token_histories' = out.hist
           /\ \E m \in SortValues(out.hist["M"]), n \in SortValues(out.hist["N"]),
                 sol \in SortValues(out.hist["SOL"]) :
                  result' = [a \in Assets |->
                               IF a = "M" THEN m ELSE IF a = "N" THEN n ELSE sol]
    /\ phase' = "done"
    /\ UNCHANGED <<transactions, current_balances, token_flows>>
    /\ UNCHANGED <<poolVars, storeVars>>

\* analyze_token_flows(transactions, target_address)
AnalyzeTokenFlows ==
    /\ phase = "input"
    /\ token_flows' = FlowPass(NoFlows, transactions)
    /\ phase' = "flows"
    /\ UNCHANGED <<transactions, current_balances, token_balances,
                   token_histories, result>>
    /\ UNCHANGED <<poolVars, storeVars>>

LedgerNext ==
    \/ \E in \in Inputs : AddTransaction(in[1], in[2])
    \/ \E snap \in Snapshots : CalculateBackward(snap)
    \/ CalculateForward
    \/ AnalyzeTokenFlows

----------------------------------------------------------------------------
(* TransactionCache (cache.py) and CachedTransactionAnalyzer                *)
(* (cached_analyzer.py): the remote ledger, the SQLite tables, and the two  *)
(* sync operations.  A signature is a number k; record k of the remote      *)
(* ledger has slot = block_time = k.                                        *)

Accounts == {"A", "B"}
Sigs == 1..MaxRecords
NoSig == 0
NoBody == "none"
NoMetadata == [total_transactions |-> -1, last_signature |-> NoSig,
               current_balances |-> "None"]
NeverSynced == -1

Min(a, b) == IF a < b THEN a ELSE b
Max(a, b) == IF a < b THEN b ELSE a

RECURSIVE Descending(_)
Descending(S) ==
    IF S = {} THEN <<>>
    ELSE LET m == CHOOSE x \in S : \A y \in S : y <= x
         IN  <<m>> \o Descending(S \ {m})

Take(s, n) == SubSeq(s, 1, Min(n, Len(s)))

\* get_signatures_for_address(pubkey, limit=n, before=before) on the remote
\* ledger: the account's records, newest first, older than the cursor.
ListRecords(a, n, before) ==
    Take(Descending({k \in 1..Len(chain) :
                        /\ a \in chain[k]
                        /\ (before = NoSig \/ k < before)}), n)

\* ---- TransactionCache ----

\* slot is the signature's own number; block_time is what the remote
\* reported for it.
Row(a, sig) == [address |-> a, signature |-> sig, block_time |-> observed[sig]]

\* INSERT OR IGNORE without the IGNORE and without the UNIQUE constraint.
InsertAlways(table, a, sig) == Append(table, Row(a, sig))

\* INSERT OR IGNORE INTO signatures: signature is UNIQUE over the table.
InsertOrIgnore(table, a, sig) ==
    IF \E i \in 1..Len(table) : table[i].signature = sig
    THEN table
    ELSE Append(table, Row(a, sig))

RECURSIVE SaveSignatures(_, _, _)
SaveSignatures(table, a, sigs) ==
    IF sigs = <<>> THEN table
    ELSE SaveSignatures(InsertOrIgnore(table, a, Head(sigs)), a, Tail(sigs))

RECURSIVE OrderByBlockTimeDesc(_)
OrderByBlockTimeDesc(rows) ==
    IF rows = <<>> THEN <<>>
    ELSE LET i == CHOOSE j \in 1..Len(rows) :
                     \A l \in 1..Len(rows) :
                         \/ rows[l].block_time < rows[j].block_time
                         \/ (rows[l].block_time = rows[j].block_time /\ j <= l)
             rest == [l \in 1..(Len(rows) - 1) |->
                         IF l < i THEN rows[l] ELSE rows[l + 1]]
         IN  <<rows[i].signature>> \o OrderByBlockTimeDesc(rest)

\* SELECT ... WHERE address = ? ORDER BY block_time DESC [LIMIT limit];
\* "if limit:" adds no LIMIT for None and for 0.
GetCachedSignatures(table, a, limit) ==
    LET all == OrderByBlockTimeDesc(SelectSeq(table, LAMBDA r : r.address = a))
    IN  IF limit # 0 THEN Take(all, limit) ELSE all

\* A save_transaction that stores nothing.
SaveTransactionDropped(store, a, sig) == store

\* INSERT OR REPLACE INTO transactions (signature UNIQUE): the row of the
\* signature now carries the saving address.
SaveTransaction(store, a, sig) == [store EXCEPT ![sig] = a]

\* A lookup that never finds a body.
GetCachedTransactionMiss(store, sig) == NoBody

\* SELECT transaction_data FROM transactions WHERE signature = ?
GetCachedTransaction(store, sig) == store[sig]

\* SELECT transaction_data FROM transactions WHERE address = ?
\* ORDER BY block_time DESC [LIMIT limit]: the rows saved under the address.
GetCachedTransactions(store, a, limit) ==
    LET all == OrderByBlockTimeDesc(
                   SelectSeq([sig \in DOMAIN store |-> Row(store[sig], sig)],
                             LAMBDA r : r.address = a))
    IN  IF limit # 0 THEN Take(all, limit) ELSE all

\* Only the count is stored.
UpdateAddressMetadataCount(total, last, balances) ==
    [total_transactions |-> total, last_signature |-> NoSig,
     current_balances |-> "None"]

\* The current_balances argument: None (the default), an empty dict, or
\* a dict of balances.
NoBalances == "None"

\* INSERT OR REPLACE INTO address_metadata: the whole row is replaced, and
\* the balances column is
\* "json.dumps(current_balances) if current_balances else None".
UpdateAddressMetadata(total, last, balances) ==
    [total_transactions |-> total, last_signature |-> last,
     current_balances |-> IF balances \in {NoBalances, "{}"}
                          THEN "None" ELSE balances]

\* ---- frames of the two sync operations ----

IdleRefs ==
    [pc |-> "idle", address |-> "A", limit |-> 0, force_refresh |-> FALSE,
     all_new_signatures |-> <<>>, before |-> NoSig, batch_size |-> 0,
     version |-> 0, repeat |-> FALSE, requests |-> 0,
     req |-> <<>>, resp |-> <<>>, ret |-> <<>>]

IdleBodies ==
    [pc |-> "idle", address |-> "A", signatures |-> <<>>, batch_size |-> 1,
     max_concurrent |-> 1, all_transactions |-> <<>>, uncached_sigs |-> <<>>,
     i |-> 0, status |-> <<>>, requested |-> {}, batches |-> 0, pauses |-> 0,
     served |-> [s \in Sigs |-> 0], ret |-> <<>>]

StoreTablesInit ==
    /\ chain = <<>>
    /\ signatures = <<>>
    /\ txstore = [s \in Sigs |-> NoBody]
    /\ address_metadata = [a \in Accounts |-> NoMetadata]
    /\ sref = IdleRefs
    /\ sbod = IdleBodies
    /\ synced = [a \in Accounts |-> NeverSynced]
    /\ ops = 0

\* Every record has a block_time, increasing with its slot.
StoreInit ==
    /\ StoreTablesInit
    /\ observed = [s \in Sigs |-> s]

\* block_time may be None, equal for two slots, or out of step with them.
StoreInitAnyTimes ==
    /\ StoreTablesInit
    /\ observed \in [Sigs -> 0..MaxRecords]

\* ---- the remote ledger and the direct store call ----

\* A new record lands on the remote ledger (append-only).
AppendRecord(touches) ==
    /\ Len(chain) < MaxRecords
    /\ chain' = Append(chain, touches)
    /\ synced' = [a \in Accounts |-> NeverSynced]
    /\ UNCHANGED <<signatures, txstore, address_metadata, sref, sbod, ops>>
    /\ UNCHANGED <<poolVars, ledgerVars, observed>>

\* TransactionCache.save_signatures(address, signatures), called directly.
UpsertRefs(a, S) ==
    /\ ops < MaxOps
    /\ ops' = ops + 1
    /\ signatures' = SaveSignatures(signatures, a, Descending(S))
    /\ UNCHANGED <<chain, txstore, address_metadata, sref, sbod, synced>>
    /\ UNCHANGED <<poolVars, ledgerVars, observed>>

\* ---- fetch_signatures_incremental ----

\* Lines 116-130: save, update the metadata, return the cached view.
FinishRefs(f) ==
    LET table == IF f.all_new_signatures # <<>>
                 THEN SaveSignatures(signatures, f.address, f.all_new_signatures)
                 ELSE signatures
    IN  /\ signatures' = table
        /\ address_metadata' =
             [address_metadata EXCEPT ![f.address] =
                 UpdateAddressMetadata(Len(f.all_new_signatures),
                     IF f.all_new_signatures # <<>>
                     THEN Head(f.all_new_signatures) ELSE NoSig,
                     NoBalances)]
        /\ sref' = [f EXCEPT !.pc = "returned",
                             !.ret = GetCachedSignatures(table, f.address, f.limit)]
        /\ synced' =
             [synced EXCEPT ![f.address] =
                 IF f.version # Len(chain) THEN NeverSynced
                 ELSE Max(@, f.limit)]

\* An engine that asks the remote only while the cache holds fewer than
\* limit signatures of the address.
EntersLoopUnlessCached(a, limit) ==
    0 < limit /\ Len(GetCachedSignatures(signatures, a, 0)) < limit

\* The loop test on entry, all_new_signatures = []: the cache read of lines
\* 66-74 is only printed.
EntersLoop(a, limit) == 0 < limit

\* Every request asks for a full page.
BatchSizeFixed(limit, n) == PageSize

\* batch_size = min(1000, limit - len(all_new_signatures))
BatchSize(limit, n) == Min(PageSize, limit - n)

\* The arguments of one get_signatures_for_address call.
Request(n, before) == [limit |-> n, before |-> before]

\* Lines 66-74: unless force_refresh, the cached signatures are read (and
\* their number and the newest one printed).
CachedSigs(table, a, force) ==
    IF ~force THEN GetCachedSignatures(table, a, 0) ELSE <<>>

\* The list starts from the cached signatures that were read.
InitialListFromCache(cached_sigs) == cached_sigs

\* Line 79: all_new_signatures = [], whatever was read from the cache.
InitialList(cached_sigs) == <<>>

\* The while loop of lines 84-113 against an unchanging remote: the
\* signatures accumulated and the requests sent.
RECURSIVE FetchLoop(_, _, _, _, _)
FetchLoop(a, limit, all, before, reqs) ==
    IF ~(Len(all) < limit) THEN [all |-> all, req |-> reqs]
    ELSE LET batch_size == BatchSize(limit, Len(all))
             response == ListRecords(a, batch_size, before)
             sent == Append(reqs, Request(batch_size, before))
         IN  IF response = <<>> THEN [all |-> all, req |-> sent]
             ELSE IF Len(response) < batch_size
             THEN [all |-> all \o response, req |-> sent]
             ELSE FetchLoop(a, limit, all \o response,
                            response[Len(response)], sent)

\* One whole pass against an unchanging remote: the requests sent, the two
\* tables afterwards and the list returned.
FetchSignaturesIncremental(table, meta, a, limit, force) ==
    LET cached_sigs == CachedSigs(table, a, force)
        out == FetchLoop(a, limit, InitialList(cached_sigs), NoSig, <<>>)
        saved == IF out.all # <<>> THEN SaveSignatures(table, a, out.all)
                 ELSE table
    IN  [req |-> out.req,
         signatures |-> saved,
         address_metadata |->
             [meta EXCEPT ![a] =
                 UpdateAddressMetadata(Len(out.all),
                     IF out.all # <<>> THEN Head(out.all) ELSE NoSig,
                     NoBalances)],
         ret |-> GetCachedSignatures(saved, a, limit)]

SyncRefsStart(a, limit, force) ==
    /\ sref.pc = "idle"
    /\ sbod.pc = "idle"
    /\ ops < MaxOps
    /\ ops' = ops + 1
    /\ LET f == [IdleRefs EXCEPT
                    !.pc = "await", !.address = a, !.limit = limit,
                    !.force_refresh = force,
                    !.all_new_signatures =
                        InitialList(CachedSigs(signatures, a, force)),
                    !.batch_size = BatchSize(limit, 0),
                    !.version = Len(chain),
                    !.repeat = /\ synced[a] # NeverSynced
                               /\ limit <= synced[a]]
       IN  IF EntersLoop(a, limit)
           THEN /\ sref' = [f EXCEPT !.requests = 1,
                                     !.req = <<Request(f.batch_size, NoSig)>>]
                /\ UNCHANGED <<signatures, address_metadata, synced>>
           ELSE FinishRefs(f)
    /\ UNCHANGED <<chain, txstore, sbod>>
    /\ UNCHANGED <<poolVars, ledgerVars, observed>>

\* The awaited page arrives (lines 87-113), and the loop either awaits the
\* next page or leaves for lines 116-130.
SyncRefsPage ==
    /\ sref.pc = "await"
    /\ LET response == ListRecords(sref.address, sref.batch_size, sref.before)
           all == sref.all_new_signatures \o response
           g == [sref EXCEPT !.resp = Append(@, response)]
           f == [g EXCEPT !.all_new_signatures = all]
           next == BatchSize(sref.limit, Len(all))
       IN  IF response = <<>> THEN FinishRefs(g)
           ELSE IF Len(response) < sref.batch_size THEN FinishRefs(f)
           ELSE IF Len(all) < sref.limit
           THEN /\ sref' = [f EXCEPT
                              !.before = response[Len(response)],
                              !.requests = @ + 1,
                              !.batch_size = next,
                              !.req = Append(@, Request(next,
                                                response[Len(response)]))]
                /\ UNCHANGED <<signatures, address_metadata, synced>>
           ELSE FinishRefs([f EXCEPT !.before = response[Len(response)]])
    /\ UNCHANGED <<chain, txstore, sbod, ops>>
    /\ UNCHANGED <<poolVars, ledgerVars, observed>>

\* The awaited page raises (all endpoints failed): the exception leaves
\* fetch_signatures_incremental before line 116.
SyncRefsPageFails ==
    /\ sref.pc = "await"
    /\ sref' = [sref EXCEPT !.pc = "raised"]
    /\ UNCHANGED <<chain, signatures, txstore, address_metadata, sbod, synced, ops>>
    /\ UNCHANGED <<poolVars, ledgerVars, observed>>

SyncRefsEnd ==
    /\ sref.pc \in {"returned", "raised"}
    /\ sref' = IdleRefs
    /\ UNCHANGED <<chain, signatures, txstore, address_metadata, sbod, synced, ops>>
    /\ UNCHANGED <<poolVars, ledgerVars, observed>>

\* main of examples/analyze.py, after fetch_signatures_incremental has
\* returned: get_current_balances (always holding the SOL entry), then
\* update_address_metadata(address, len(signatures), signatures[0], balances).
SaveSnapshot ==
    /\ sref.pc = "returned"
    /\ address_metadata' =
         [address_metadata EXCEPT ![sref.address] =
             UpdateAddressMetadata(Len(sref.ret),
                 IF sref.ret # <<>> THEN Head(sref.ret) ELSE NoSig,
                 "balances")]
    /\ UNCHANGED <<chain, signatures, txstore, sref, sbod, synced, ops>>
    /\ UNCHANGED <<poolVars, ledgerVars, observed>>

\* ---- fetch_transaction_details_cached ----

IsCached(sig) == GetCachedTransaction(txstore, sig) # NoBody

InBatch(f, k) == f.i < k /\ k <= f.i + f.batch_size

Finished(st) == st \in {"ok", "none", "raised"}

\* Lines 151-167: partition, and return at once when nothing is missing;
\* otherwise the tasks of the first batch are created (lines 205-211).
SyncBodiesStart(a, refs, bs, mc) ==
    /\ sref.pc = "idle"
    /\ sbod.pc = "idle"
    /\ LET cached == SelectSeq(refs, IsCached)
           uncached == SelectSeq(refs, LAMBDA s : ~IsCached(s))
           f == [IdleBodies EXCEPT
                    !.address = a, !.signatures = refs, !.batch_size = bs,
                    !.max_concurrent = mc, !.all_transactions = cached,
                    !.uncached_sigs = uncached]
       IN  sbod' = IF uncached = <<>>
                   THEN [f EXCEPT !.pc = "returned", !.ret = cached]
                   ELSE [f EXCEPT !.pc = "batch", !.batches = 1,
                            !.status = [k \in 1..Len(uncached) |->
                                          IF k <= bs THEN "waiting"
                                          ELSE "pending"]]
    /\ UNCHANGED <<chain, signatures, txstore, address_metadata, sref, synced, ops>>
    /\ UNCHANGED <<poolVars, ledgerVars, observed>>

Inflight(f) == {k \in 1..Len(f.status) : f.status[k] = "inflight"}

\* async with semaphore (FIFO): the oldest waiting task of the batch enters
\* and issues client.get_transaction.
BeginFetch(k) ==
    /\ sbod.pc = "batch"
    /\ k \in DOMAIN sbod.status
    /\ sbod.status[k] = "waiting"
    /\ \A l \in 1..(k - 1) : sbod.status[l] # "waiting"
    /\ Cardinality(Inflight(sbod)) < sbod.max_concurrent
    /\ sbod' = [sbod EXCEPT !.status[k] = "inflight",
                            !.requested = @ \cup {sbod.uncached_sigs[k]}]
    /\ UNCHANGED <<chain, signatures, txstore, address_metadata, sref, synced, ops>>
    /\ UNCHANGED <<poolVars, ledgerVars, observed>>

\* The response carries the record: save_transaction, then return tx_data.
FetchOK(k) ==
    /\ sbod.pc = "batch"
    /\ k \in DOMAIN sbod.status
    /\ sbod.status[k] = "inflight"
    /\ sbod.uncached_sigs[k] <= Len(chain)
    /\ txstore' = SaveTransaction(txstore, sbod.address, sbod.uncached_sigs[k])
    /\ sbod' = [sbod EXCEPT !.status[k] = "ok",
                            !.served[sbod.uncached_sigs[k]] = @ + 1]
    /\ UNCHANGED <<chain, signatures, address_metadata, sref, synced, ops>>
    /\ UNCHANGED <<poolVars, ledgerVars, observed>>

\* response.value is None: return None.
FetchNone(k) ==
    /\ sbod.pc = "batch"
    /\ k \in DOMAIN sbod.status
    /\ sbod.status[k] = "inflight"
    /\ sbod' = [sbod EXCEPT !.status[k] = "none"]
    /\ UNCHANGED <<chain, signatures, txstore, address_metadata, sref, synced, ops>>
    /\ UNCHANGED <<poolVars, ledgerVars, observed>>

\* get_transaction raises (all endpoints failed): except Exception, return None.
FetchRaises(k) ==
    /\ sbod.pc = "batch"
    /\ k \in DOMAIN sbod.status
    /\ sbod.status[k] = "inflight"
    /\ sbod' = [sbod EXCEPT !.status[k] = "raised"]
    /\ UNCHANGED <<chain, signatures, txstore, address_metadata, sref, synced, ops>>
    /\ UNCHANGED <<poolVars, ledgerVars, observed>>

\* A pause follows every batch, the last one too.
PausesAlways(i, n) == 1

\* Lines 218-219, i being the end of the batch just gathered:
\* if i + batch_size < len(uncached_sigs): await asyncio.sleep(0.5)
Pauses(i, n) == IF i < n THEN 1 ELSE 0

\* gather returns (lines 211-219): the non-None results join the list, and
\* the next batch starts or the call returns.
BatchDone ==
    /\ sbod.pc = "batch"
    /\ \A k \in 1..Len(sbod.status) : InBatch(sbod, k) => Finished(sbod.status[k])
    /\ LET n == Len(sbod.uncached_sigs)
           last == Min(sbod.i + sbod.batch_size, n)
           fetched == SelectSeq(
               [j \in 1..(last - sbod.i) |->
                   [sig |-> sbod.uncached_sigs[sbod.i + j],
                    st |-> sbod.status[sbod.i + j]]],
               LAMBDA r : r.st = "ok")
           all == sbod.all_transactions \o
                      [j \in 1..Len(fetched) |-> fetched[j].sig]
           f == [sbod EXCEPT !.all_transactions = all,
                             !.i = sbod.i + sbod.batch_size,
                             !.pauses = @ + Pauses(sbod.i + sbod.batch_size, n)]
       IN  sbod' = IF f.i < n
                   THEN [f EXCEPT !.batches = @ + 1, !.status =
                            [k \in 1..n |-> IF InBatch(f, k) THEN "waiting"
                                            ELSE sbod.status[k]]]
                   ELSE [f EXCEPT !.pc = "returned", !.ret = all]
    /\ UNCHANGED <<chain, signatures, txstore, address_metadata, sref, synced, ops>>
    /\ UNCHANGED <<poolVars, ledgerVars, observed>>

SyncBodiesEnd ==
    /\ sbod.pc = "returned"
    /\ sbod' = IdleBodies
    /\ UNCHANGED <<chain, signatures, txstore, address_metadata, sref, synced, ops>>
    /\ UNCHANGED <<poolVars, ledgerVars, observed>>

\* TransactionCache.save_transaction(address, signature, data), called
\* directly between two sync calls.
UpsertBody(a, sig) ==
    /\ sbod.pc = "idle"
    /\ txstore' = SaveTransaction(txstore, a, sig)
    /\ UNCHANGED <<chain, signatures, address_metadata, sref, sbod, synced, ops>>
    /\ UNCHANGED <<poolVars, ledgerVars, observed>>

\* The task running fetch_transaction_details_cached is cancelled while it
\* awaits gather or the pause: CancelledError passes "except Exception",
\* the pending fetches are cancelled with it, and nothing is rolled back.
CancelSyncBodies ==
    /\ sbod.pc = "batch"
    /\ sbod' = IdleBodies
    /\ UNCHANGED <<chain, signatures, txstore, address_metadata, sref, synced, ops>>
    /\ UNCHANGED <<poolVars, ledgerVars, observed>>

\* The signatures argument: a list as get_cached_signatures returns it, or
\* a list that names one signature twice.
RefLists == {Descending(S) : S \in SUBSET Sigs} \cup {<<r, r>> : r \in Sigs}

RefsNext ==
    \/ \E touches \in (SUBSET Accounts) \ {{}} : AppendRecord(touches)
    \/ \E a \in Accounts, S \in (SUBSET Sigs) \ {{}} : UpsertRefs(a, S)
    \/ \E a \in Accounts, limit \in 0..MaxLimit, force \in BOOLEAN :
           SyncRefsStart(a, limit, force)
    \/ SyncRefsPage
    \/ SyncRefsPageFails
    \/ SyncRefsEnd

BodiesNext ==
    \/ \E touches \in (SUBSET Accounts) \ {{}} : AppendRecord(touches)
    \/ \E a \in Accounts, refs \in RefLists,
          bs \in 1..MaxBatchSize, mc \in 1..MaxConcurrent :
           SyncBodiesStart(a, refs, bs, mc)
    \/ \E k \in Sigs : BeginFetch(k)
    \/ \E k \in Sigs : FetchOK(k)
    \/ \E k \in Sigs : FetchNone(k)
    \/ \E k \in Sigs : FetchRaises(k)
    \/ BatchDone
    \/ SyncBodiesEnd

\* The store's own calls next to the sync of bodies, and cancellation.
CacheCallsNext ==
    \/ BodiesNext
    \/ \E a \in Accounts, sig \in Sigs : UpsertBody(a, sig)
    \/ CancelSyncBodies

\* The store's own calls on rows with any block_time.
OrderNext ==
    \/ \E a \in Accounts, S \in (SUBSET Sigs) \ {{}} : UpsertRefs(a, S)
    \/ \E a \in Accounts, sig \in Sigs : UpsertBody(a, sig)

----------------------------------------------------------------------------
(* Specifications *)

PoolSpecInit == PoolInit /\ LedgerInit /\ StoreInit
PoolSpec == PoolSpecInit /\ [][PoolNext]_vars

SharedPoolSpecInit == PoolInit /\ StoreInit /\ LedgerInit
SharedPoolSpec == SharedPoolSpecInit /\ [][SharedPoolNext]_vars

LedgerSpecInit == LedgerInit /\ PoolUnused /\ StoreInit
LedgerSpec == LedgerSpecInit /\ [][LedgerNext]_vars

RefsSpecInit == StoreInit /\ PoolUnused /\ LedgerInit
RefsSpec == RefsSpecInit /\ [][RefsNext]_vars

\* The passes of examples/analyze.py over a growing remote ledger.
SnapshotNext ==
    \/ \E touches \in (SUBSET Accounts) \ {{}} : AppendRecord(touches)
    \/ \E a \in Accounts, limit \in 0..MaxLimit, force \in BOOLEAN :
           SyncRefsStart(a, limit, force)
    \/ SyncRefsPage
    \/ SyncRefsPageFails
    \/ SaveSnapshot
    \/ SyncRefsEnd

SnapshotSpecInit == StoreInit /\ PoolUnused /\ LedgerInit
SnapshotSpec == SnapshotSpecInit /\ [][SnapshotNext]_vars

CacheCallsSpecInit == StoreInit /\ PoolUnused /\ LedgerInit
CacheCallsSpec == CacheCallsSpecInit /\ [][CacheCallsNext]_vars

OrderSpecInit == StoreInitAnyTimes /\ PoolUnused /\ LedgerInit
OrderSpec == OrderSpecInit /\ [][OrderNext]_vars

BodiesSpecInit == StoreInit /\ LedgerInit /\ PoolUnused
BodiesSpec == BodiesSpecInit /\ [][BodiesNext]_vars

----------------------------------------------------------------------------
(* Claims about MultiRPCClient (PoolSpec) *)

\* Attempts a frame has begun: the finished ones and the one awaited.
AttemptsBegun(f) == Len(f.log) + (IF f.pc = "await" THEN 1 ELSE 0)

AllFailed(log) == \A i \in 1..Len(log) : ~log[i][2]

Tried(log) == {log[i][1] : i \in 1..Len(log)}

\* Endpoint 1 fails on every attempt, endpoints 2..N succeed on every attempt.
FailoverPool == mode[1] = "down" /\ \A u \in 2..rpc_urls : mode[u] = "up"

\* A call with the default budget is within N attempts and not exhausted.
WithinN(f) ==
    f.max_retries = DefaultMaxRetries /\ f.pc # "idle" =>
        /\ f.pc # "raised"
        /\ AttemptsBegun(f) <= rpc_urls
        /\ (f.pc = "loop" => Len(f.log) < rpc_urls)

C9_SharedRetryBudget ==
    \A c \in Callers :
        LET f == calls[c]
            n == Len(f.log)
        IN  /\ AttemptsBegun(f) <= f.max_retries
            /\ f.pc \in {"loop", "await"} => AllFailed(f.log)
            /\ f.pc = "loop" /\ n = f.max_retries =>
                   ENABLED RaiseExhausted(c) /\ ~ENABLED GetNextClient(c)
            /\ f.pc = "returned" =>
                   /\ n >= 1
                   /\ f.log[n][2]
                   /\ AllFailed(SubSeq(f.log, 1, n - 1))
                   /\ f.result = f.log[n][1]
            /\ f.pc = "raised" =>
                   /\ n = f.max_retries
                   /\ AllFailed(f.log)
                   /\ f.error = f.log[n][1]

C9_Witness ==
    \E c \in Callers :
        /\ calls[c].pc = "raised"
        /\ calls[c].max_retries = 2
        /\ calls[c].log = <<(<<1, FALSE>>), (<<2, FALSE>>)>>
        /\ calls[c].error = 2

\* C10: whenever a call has failed with the exhausted error, every endpoint of
\* the pool was attempted at least once during that call.
C10_ExhaustedTriedAll ==
    \A c \in Callers :
        calls[c].pc = "raised" => Tried(calls[c].log) = 1..rpc_urls

----------------------------------------------------------------------------
(* Claims about BalanceTracker and analyze_token_flows (LedgerSpec) *)

RECURSIVE SumChanges(_)
SumChanges(h) == IF h = <<>> THEN 0 ELSE Head(h).change + SumChanges(Tail(h))

\* The deltas the forward pass observes, per asset, for the bodies given.
ObservedDeltas(txs) ==
    ForwardPass([bal |-> [a \in Assets |-> 0], hist |-> NoHistory], SortedTxs(txs)).hist

\* C1: for every asset the snapshot supplies whose series is non-empty, the
\* balance of the last point of the series equals the snapshot's amount.
C1_SnapshotAnchoring ==
    phase = "done" =>
        \A a \in Assets :
            InSnapshot(current_balances, a) /\ result[a] # <<>> =>
                result[a][Len(result[a])].balance = current_balances[a]

\* C2: after the backward pass the working balance of every asset equals the
\* snapshot's amount (0 if absent) minus the sum of the asset's deltas over
\* all bodies, the balance just before the oldest body.
C2_BackwardAnchor ==
    phase = "backward" =>
        \A a \in Assets :
            token_balances[a] =
                SeedBalances(current_balances)[a]
                    - SumChanges(ObservedDeltas(transactions)[a])

\* C3: in every returned series each point's balance is the previous point's
\* balance plus its own delta (replaying the deltas from the first point's
\* balance minus delta reproduces every balance).
C3_ReplayConsistency ==
    phase = "done" =>
        \A a \in Assets :
            \A i \in 2..Len(result[a]) :
                result[a][i].balance = result[a][i - 1].balance + result[a][i].change

\* The signed change of one asset at one target index of a body, as a list
\* (empty: the index does not touch the asset).
DeltaAt(tx, i, a) ==
    LET pre == PreTok(tx, i)
        post == PostTok(tx, i)
    IN  IF a = "SOL"
        THEN IF i <= Len(tx.pre_balances) /\ i <= Len(tx.post_balances)
             THEN <<tx.post_balances[i] - tx.pre_balances[i]>>
             ELSE <<>>
        ELSE IF pre.mint = a /\ post.mint = a THEN <<post.ui_amount - pre.ui_amount>>
        ELSE IF pre = NoTok /\ post.mint = a THEN <<post.ui_amount>>
        ELSE IF post = NoTok /\ pre.mint = a THEN <<0 - pre.ui_amount>>
        ELSE <<>>

RECURSIVE DeltasOfIndices(_, _, _)
DeltasOfIndices(tx, idxs, a) ==
    IF idxs = <<>> THEN <<>>
    ELSE DeltaAt(tx, Head(idxs), a) \o DeltasOfIndices(tx, Tail(idxs), a)

\* Every delta of asset a over the non-error bodies.
RECURSIVE Deltas(_, _)
Deltas(txs, a) ==
    IF txs = <<>> THEN <<>>
    ELSE (IF Skipped(Head(txs)) THEN <<>>
          ELSE DeltasOfIndices(Head(txs), TargetIndices(Head(txs)), a))
         \o Deltas(Tail(txs), a)

RECURSIVE SumPositive(_)
SumPositive(ds) ==
    IF ds = <<>> THEN 0
    ELSE (IF Head(ds) > 0 THEN Head(ds) ELSE 0) + SumPositive(Tail(ds))

RECURSIVE SumNegative(_)
SumNegative(ds) ==
    IF ds = <<>> THEN 0
    ELSE (IF Head(ds) < 0 THEN 0 - Head(ds) ELSE 0) + SumNegative(Tail(ds))

FlowTotalsOf(fl, txs) ==
    \A a \in Assets :
        /\ fl[a].total_received = SumPositive(Deltas(txs, a))
        /\ fl[a].total_sent = SumNegative(Deltas(txs, a))
        /\ fl[a].net_change = fl[a].total_received - fl[a].total_sent

\* Three bodies whose deltas on one asset are +4, -1, +2.
ExampleFlowTxs ==
    <<Body(1, 1, Shape(<<"W">>, <<Tok("M", 0)>>, <<Tok("M", 4)>>, <<>>, <<>>)),
      Body(2, 2, Shape(<<"W">>, <<Tok("M", 4)>>, <<Tok("M", 3)>>, <<>>, <<>>)),
      Body(3, 3, Shape(<<"W">>, <<Tok("M", 3)>>, <<Tok("M", 5)>>, <<>>, <<>>))>>

\* C8: for every asset, analyze_token_flows yields received = the sum of the
\* positive deltas, sent = the sum of the magnitudes of the negative deltas
\* and net = received - sent over the non-error bodies; deltas +4, -1, +2
\* yield received 6, sent 1, net 5, count 3.
C8_FlowTotals ==
    phase = "flows" =>
        /\ FlowTotalsOf(token_flows, transactions)
        /\ FlowPass(NoFlows, ExampleFlowTxs)["M"] =
               [total_received |-> 6, total_sent |-> 1, net_change |-> 5,
                transaction_count |-> 3]

C8_Witness ==
    /\ phase = "flows"
    /\ Len(transactions) = 2
    /\ token_flows["M"].total_received = 2
    /\ token_flows["M"].total_sent = 1
    /\ token_flows["M"].net_change = 1


----------------------------------------------------------------------------
(* Claims about the pool shared by concurrent calls (SharedPoolSpec) *)

RECURSIVE RequestsUpTo(_, _)
RequestsUpTo(st, u) ==
    IF u = 0 THEN 0 ELSE st[u].requests + RequestsUpTo(st, u - 1)

\* The number of attempts made on the pool so far, over all calls.
TotalAttempts(st) == RequestsUpTo(st, rpc_urls)

\* C11: the k-th attempt made on the pool, counting the attempts of all
\* calls, targets endpoint (k-1) mod N of the endpoint list (here number
\* ((k-1) mod N) + 1), whatever failures the endpoints have had.
C11_StrictRoundRobin ==
    [][\A u \in 1..rpc_urls :
          stats'[u].requests # stats[u].requests =>
             /\ stats'[u].requests = stats[u].requests + 1
             /\ TotalAttempts(stats') = TotalAttempts(stats) + 1
             /\ u = (TotalAttempts(stats) % rpc_urls) + 1]_vars

\* Two calls are in flight on a pool of two or more endpoints, and an
\* endpoint that has failed has been selected again.
C11_Witness ==
    /\ rpc_urls >= 2
    /\ \A c \in Callers : calls[c].pc = "await"
    /\ \E u \in 1..rpc_urls :
          /\ stats[u].failures >= 1
          /\ stats[u].requests > stats[u].failures
          /\ \E c \in Callers : calls[c].url = u

\* An attempt of call c begins in this step on endpoint u.
Attempts(c, u) ==
    calls[c].pc = "loop" /\ calls'[c].pc = "await" /\ calls'[c].url = u

\* An attempt of call c on endpoint u fails in this step.
Fails(c, u) ==
    calls[c].pc = "await" /\ calls'[c].pc = "loop" /\ calls[c].url = u

CountersOf(u) == <<stats[u].requests, stats[u].failures>>

----------------------------------------------------------------------------
(* Claims about the cache and the sync operations (RefsSpec, BodiesSpec) *)

NoDuplicates(s) == \A i, j \in 1..Len(s) : s[i] = s[j] => i = j

NoDuplicateRefs ==
    \A a \in Accounts : NoDuplicates(GetCachedSignatures(signatures, a, 0))

\* The step in which a fetch_signatures_incremental returns, when the same
\* address was already synced with a limit at least as large and the remote
\* ledger has not changed since that sync began.
RepeatedSyncReturns ==
    /\ sref.pc \in {"idle", "await"}
    /\ sref'.pc = "returned"
    /\ sref'.repeat
    /\ sref'.version = Len(chain)

\* C4: after any sequence of fetch_signatures_incremental and
\* save_signatures calls, with repeated and overlapping input,
\* get_cached_signatures(address) holds every signature at most once; and a
\* second fetch_signatures_incremental of an address (with a limit no larger
\* than the first) against an unchanged remote ledger leaves what
\* get_cached_signatures returns, for every address, unchanged.
C4_IdempotentRefCache ==
    /\ []NoDuplicateRefs
    /\ [][RepeatedSyncReturns =>
            \A a \in Accounts :
                GetCachedSignatures(signatures', a, 0)
                    = GetCachedSignatures(signatures, a, 0)]_vars

\* A repeated sync of an address has returned two refs against an unchanged
\* remote ledger, while the table also holds a row saved for another address.
C4_Witness ==
    /\ sref.pc = "returned"
    /\ sref.repeat
    /\ sref.version = Len(chain)
    /\ sref.all_new_signatures # <<>>
    /\ Len(sref.ret) >= 2
    /\ \E i \in 1..Len(signatures) : signatures[i].address # sref.address

\* C5: a body saved while syncing one address is, in a later
\* fetch_transaction_details_cached for another address whose list holds
\* its signature, never requested from the remote and is in the returned
\* list.
C5_BodyIndependence ==
    sbod.pc # "idle" =>
        \A k \in 1..Len(sbod.signatures) :
            LET r == sbod.signatures[k]
            IN  txstore[r] \notin {NoBody, sbod.address} =>
                    /\ r \notin sbod.requested
                    /\ sbod.pc = "returned" =>
                           \E j \in 1..Len(sbod.ret) : sbod.ret[j] = r

\* The sync for B returned a body saved under A and fetched another one.
C5_Witness ==
    /\ sbod.pc = "returned"
    /\ sbod.address = "B"
    /\ sbod.requested # {}
    /\ \E j \in 1..Len(sbod.ret) : txstore[sbod.ret[j]] = "A"
    /\ \E j \in 1..Len(sbod.ret) : txstore[sbod.ret[j]] = "B"

FailedFetches(f) ==
    {k \in 1..Len(f.status) : f.status[k] \in {"none", "raised"}}

C12_CrossAccountVisibility ==
    sbod.pc = "returned" =>
        \A k \in 1..Len(sbod.signatures) :
            LET r == sbod.signatures[k]
                bodies == GetCachedTransactions(txstore, sbod.address, 0)
            IN  txstore[r] \notin {NoBody, sbod.address} =>
                    /\ GetCachedTransaction(txstore, r) # NoBody
                    /\ \E j \in 1..Len(bodies) : bodies[j] = r

SetOf(seq) == {seq[i] : i \in 1..Len(seq)}

\* C13: across save_signatures, save_transaction and the sync calls for any
\* addresses, a cancelled fetch_transaction_details_cached included, nothing
\* is lost: for every address the signatures of get_cached_signatures and
\* those of get_cached_transactions never shrink, and a signature for which
\* get_cached_transaction returned a body keeps returning one.
C13_MonotonicCache ==
    [][/\ \A a \in Accounts :
            /\ SetOf(GetCachedSignatures(signatures, a, 0))
                  \subseteq SetOf(GetCachedSignatures(signatures', a, 0))
            /\ SetOf(GetCachedTransactions(txstore, a, 0))
                  \subseteq SetOf(GetCachedTransactions(txstore', a, 0))
       /\ \A r \in Sigs :
            GetCachedTransaction(txstore, r) # NoBody =>
                GetCachedTransaction(txstore', r) # NoBody]_vars

\* C14 as stated: every fetch_signatures_incremental, for every limit, every
\* force_refresh and every cache state, issues at least one
\* get_signatures_for_address request.
C14_AlwaysOnePage ==
    sref.pc \in {"await", "returned", "raised"} => sref.requests >= 1

\* C14: every fetch_signatures_incremental with limit >= 1, for every
\* force_refresh and every cache state, issues at least one
\* get_signatures_for_address request.
C14_OnePageForPositiveLimit ==
    (sref.pc \in {"await", "returned", "raised"} /\ sref.limit >= 1)
        => sref.requests >= 1

\* A call without force_refresh whose cache already held limit signatures of
\* the address has returned, having asked the remote.
C14_Witness ==
    /\ sref.pc = "returned"
    /\ ~sref.force_refresh
    /\ sref.repeat
    /\ sref.version = Len(chain)
    /\ sref.limit >= 1
    /\ Len(sref.ret) = sref.limit
    /\ sref.requests >= 1

\* C15: when fetch_signatures_incremental raises on a page request after
\* earlier pages of the same call were received, the signatures of those
\* pages are in get_cached_signatures(address) after the failure.
C15_RefsRetainedOnFailure ==
    sref.pc = "raised" =>
        SetOf(sref.all_new_signatures)
            \subseteq SetOf(GetCachedSignatures(signatures, sref.address, 0))

\* C16: over the fetch_transaction_details_cached calls, with lists that may
\* name a signature more than once, the remote returns the body of a
\* signature successfully at most once (and the store, keyed by signature,
\* holds at most one body per signature).
C16_FetchedAtMostOnce ==
    \A r \in Sigs : sbod.served[r] <= 1

\* C17: calculate_balance_history never raises for a data-quality reason:
\* with a snapshot entry whose amount is null it returns normally (and the
\* series of the other assets are those of the input without that entry).
C17_ReconstructionNeverRaises ==
    phase # "raised"

\* Descending by slot (the signature's number), and with a limit the
\* entries of highest slot among all.
BySlotDescending(seq, all, limit) ==
    /\ \A i, j \in 1..Len(seq) : i < j => seq[i] > seq[j]
    /\ limit # 0 =>
         \A r \in SetOf(all) \ SetOf(seq) : \A q \in SetOf(seq) : q > r

\* C18: get_cached_signatures(address, limit) and
\* get_cached_transactions(address, limit) return their entries by slot
\* descending for every store content, block_time None or out of step with
\* the slot included, and with a limit the entries of highest slot.
C18_OrderedBySlot ==
    \A a \in Accounts, limit \in 0..MaxLimit :
        /\ BySlotDescending(GetCachedSignatures(signatures, a, limit),
                            GetCachedSignatures(signatures, a, 0), limit)
        /\ BySlotDescending(GetCachedTransactions(txstore, a, limit),
                            GetCachedTransactions(txstore, a, 0), limit)

RECURSIVE NonZero(_)
NonZero(ds) ==
    IF ds = <<>> THEN 0
    ELSE (IF Head(ds) # 0 THEN 1 ELSE 0) + NonZero(Tail(ds))

\* C19: a body in which the target's before and after sub-balances of an
\* asset are equal produces no point for that asset (no returned point has
\* change = 0) and is not counted in that asset's transaction_count, for
\* token assets and for SOL alike.
C19_ZeroDeltasDiscarded ==
    /\ phase = "done" =>
         \A a \in Assets : \A i \in 1..Len(result[a]) : result[a][i].change # 0
    /\ phase = "flows" =>
         \A a \in Assets :
             token_flows[a].transaction_count <= NonZero(Deltas(transactions, a))

\* The number of non-error bodies in which the target has a sub-entry of
\* asset a.
RECURSIVE BodiesTouching(_, _)
BodiesTouching(txs, a) ==
    IF txs = <<>> THEN 0
    ELSE (IF ~Skipped(Head(txs))
             /\ DeltasOfIndices(Head(txs), TargetIndices(Head(txs)), a) # <<>>
          THEN 1 ELSE 0) + BodiesTouching(Tail(txs), a)

\* C20: transaction_count of an asset is the number of distinct bodies in
\* which the target has a delta for that asset, also when one body holds
\* several sub-entries of the asset.
C20_CountOncePerBody ==
    phase = "flows" =>
        \A a \in Assets :
            token_flows[a].transaction_count = BodiesTouching(transactions, a)

RECURSIVE Flatten(_)
Flatten(pages) ==
    IF pages = <<>> THEN <<>> ELSE Head(pages) \o Flatten(Tail(pages))

\* The signatures accumulated before request k.
Before(f, k) == Flatten(SubSeq(f.resp, 1, k - 1))

\* The loop must stop after page k: the limit is reached, the page was
\* shorter than asked, or it was empty.
MustStop(f, k) ==
    \/ f.resp[k] = <<>>
    \/ Len(f.resp[k]) < f.req[k].limit
    \/ Len(Flatten(SubSeq(f.resp, 1, k))) >= f.limit

\* C22: in fetch_signatures_incremental the first request carries no cursor
\* and every later one the last signature of the page before; each asks for
\* min(page size, limit - accumulated); the loop goes on after a page
\* exactly when the limit is not reached and the page was full and not
\* empty; it makes at most limit requests and never accumulates more than
\* limit signatures.
C22_Pagination ==
    sref.pc # "idle" =>
        /\ Len(sref.req) = sref.requests
        /\ Len(sref.resp) = (IF sref.pc \in {"await", "raised"}
                             THEN Len(sref.req) - 1 ELSE Len(sref.req))
        /\ sref.all_new_signatures = Flatten(sref.resp)
        /\ \A k \in 1..Len(sref.req) :
              /\ sref.req[k].before =
                    (IF k = 1 THEN NoSig
                     ELSE sref.resp[k - 1][Len(sref.resp[k - 1])])
              /\ sref.req[k].limit =
                    Min(PageSize, sref.limit - Len(Before(sref, k)))
              /\ sref.req[k].limit >= 1
              /\ k > 1 => ~MustStop(sref, k - 1)
        /\ sref.pc = "returned" =>
              \/ sref.limit = 0 /\ sref.req = <<>>
              \/ sref.req # <<>> /\ MustStop(sref, Len(sref.req))
        /\ sref.requests <= sref.limit
        /\ Len(sref.all_new_signatures) <= sref.limit

\* Two pages: the second request carried the first page's last signature,
\* and the loop stopped because limit signatures had been accumulated.
C22_Witness ==
    /\ sref.pc = "returned"
    /\ sref.limit = 3
    /\ Len(sref.req) = 2
    /\ sref.req[2] = Request(1, sref.resp[1][2])
    /\ Len(sref.all_new_signatures) = 3

Started(st) == st \in {"inflight", "ok", "none", "raised"}

\* The number of batches range(0, n, batch_size) yields.
BatchCount(n, bs) == (n + bs - 1) \div bs

\* C23: in fetch_transaction_details_cached the get_transaction requests in
\* flight are never more than max_concurrent nor more than batch_size; a
\* fetch of a later batch has started only when every fetch of the batches
\* before has completed; and the pauses taken are one fewer than the
\* batches started, also when the call has returned.
C23_BoundedConcurrency ==
    sbod.pc \in {"batch", "returned"} /\ sbod.uncached_sigs # <<>> =>
        /\ Cardinality(Inflight(sbod)) <= sbod.max_concurrent
        /\ Cardinality(Inflight(sbod)) <= sbod.batch_size
        /\ \A k \in DOMAIN sbod.status :
              /\ Started(sbod.status[k]) =>
                    \A l \in DOMAIN sbod.status :
                        ((l - 1) \div sbod.batch_size) < ((k - 1) \div sbod.batch_size)
                            => Finished(sbod.status[l])
              /\ sbod.status[k] = "inflight" => InBatch(sbod, k)
        /\ sbod.pauses = sbod.batches - 1
        /\ sbod.pc = "returned" =>
              sbod.batches = BatchCount(Len(sbod.uncached_sigs), sbod.batch_size)

\* Three missing bodies fetched in two batches with one pause between them.
C23_Witness ==
    /\ sbod.pc = "returned"
    /\ Len(sbod.uncached_sigs) = 3
    /\ sbod.batch_size = 2
    /\ sbod.max_concurrent = 2
    /\ sbod.batches = 2
    /\ sbod.pauses = 1

\* The newest signature of the first page of the pass, None when the pass
\* fetched nothing.
NewestFetched(f) ==
    IF f.resp # <<>> /\ f.resp[1] # <<>> THEN f.resp[1][1] ELSE NoSig

\* C24: when fetch_signatures_incremental has returned, the metadata row of
\* its address holds as last_signature the first signature of the first page
\* of that pass and as total_transactions the number of signatures fetched
\* in that pass; every other step, a pass that raises included, leaves the
\* metadata as it was.
C24_SyncStateUpdate ==
    [][IF sref'.pc = "returned"
       THEN LET row == address_metadata'[sref'.address]
            IN  /\ row.last_signature = NewestFetched(sref')
                /\ row.total_transactions = Len(sref'.all_new_signatures)
                /\ \A b \in Accounts \ {sref'.address} :
                      address_metadata'[b] = address_metadata[b]
       ELSE address_metadata' = address_metadata]_vars

\* A pass of two pages has returned and the row names the head of the first.
C24_Witness ==
    /\ sref.pc = "returned"
    /\ Len(sref.resp) = 2
    /\ Len(sref.all_new_signatures) = 3
    /\ address_metadata[sref.address].last_signature = sref.resp[1][1]
    /\ address_metadata[sref.address].total_transactions = 3

\* C25: with calls interleaved on a pool of two or more endpoints, two
\* consecutive attempts of one call never go to the same endpoint, and a
\* call that raises has not made all its attempts on one endpoint while
\* another endpoint is healthy.
C25_FailoverUnderConcurrency ==
    rpc_urls >= 2 =>
        \A c \in Callers :
            /\ \A k \in 1..(Len(calls[c].log) - 1) :
                  calls[c].log[k][1] # calls[c].log[k + 1][1]
            /\ calls[c].pc = "raised" /\ calls[c].max_retries >= 2 =>
                  ~ /\ \A k \in 1..Len(calls[c].log) :
                          calls[c].log[k][1] = calls[c].log[1][1]
                    /\ \E u \in 1..rpc_urls : mode[u] = "up"

\* C26: signatures are kept per address: when fetch_signatures_incremental
\* of an address has returned, having saved the signatures it fetched,
\* get_cached_signatures of that address (no limit) returns every one of
\* them, whatever other addresses have stored before.
C26_RefsPerAccount ==
    sref.pc = "returned" =>
        SetOf(sref.all_new_signatures) \subseteq
            SetOf(GetCachedSignatures(signatures, sref.address, 0))

\* C27: a fetch_signatures_incremental call leaves the stored snapshot
\* alone: when a call returns, the current_balances of its address, if one
\* was stored, is what it was before, and the metadata rows of the other
\* addresses are unchanged.
C27_SnapshotUntouched ==
    [][sref.pc # "returned" /\ sref'.pc = "returned" =>
          \A a \in Accounts :
              IF a = sref'.address
              THEN address_metadata[a].current_balances # "None" =>
                      address_metadata'[a].current_balances =
                          address_metadata[a].current_balances
              ELSE address_metadata'[a] = address_metadata[a]]_vars

\* C28: calculate_balance_history and analyze_token_flows agree: for the
\* same bodies and address, the changes of the series of every asset sum to
\* the net_change of that asset's flows (0 for an asset without series or
\* without flows).
C28_ReconstructionAgreesWithFlows ==
    phase = "done" =>
        \A a \in Assets :
            SumChanges(result[a]) = FlowPass(NoFlows, transactions)[a].net_change

DistinctTimes(txs) ==
    \A i, j \in 1..Len(txs) : i # j => txs[i].block_time # txs[j].block_time

Permuted(txs, p) == [i \in 1..Len(txs) |-> txs[p[i]]]

\* The bodies in ascending block_time, picked without the engine's sort.
Ascending(txs) ==
    CHOOSE s \in {Permuted(txs, p) :
                    p \in {q \in [1..Len(txs) -> 1..Len(txs)] :
                              IsPermutation(q, Len(txs))}} :
        \A i, j \in 1..Len(s) : i < j => s[i].block_time <= s[j].block_time

\* C30: for bodies of pairwise distinct block_time, the series
\* calculate_balance_history returns are those it returns for the list in
\* ascending order, and every permutation of the list gives these same
\* series: an unsorted list is reordered, not rejected nor replayed in the
\* order given.
C30_OrderIndependence ==
    phase = "done" /\ DistinctTimes(transactions) =>
        /\ \A a \in Assets :
              CalculateBalanceHistory(Ascending(transactions),
                                      current_balances)[a] = {result[a]}
        /\ \A p \in [1..Len(transactions) -> 1..Len(transactions)] :
              IsPermutation(p, Len(transactions)) =>
                 \A a \in Assets :
                    CalculateBalanceHistory(Permuted(transactions, p),
                                            current_balances)[a] = {result[a]}

\* Two bodies handed over newest first, both changing M: the series of M
\* comes out oldest first.
C30_Witness ==
    /\ phase = "done"
    /\ Len(transactions) = 2
    /\ transactions[1].block_time = 2
    /\ transactions[2].block_time = 1
    /\ Len(result["M"]) = 2
    /\ result["M"][1].timestamp = 1
    /\ result["M"][1].change # 0
    /\ result["M"][2].change # 0

====
